---- MODULE Spec2Model ----
(***************************************************************************)
(* PeriodicTaskQueue (pkg/utils/taskqueue.go): a worker loop (Run) that    *)
(* pulls keys from a deduplicating rate-limited work queue and hands them  *)
(* to a sync callback, producers that Enqueue objects, and a synchronous   *)
(* Shutdown.  The work queue itself (workqueue.RateLimitingInterface) is   *)
(* not part of pkg/utils; it is modelled from its contract in section 4.1  *)
(* of the design document.                                                 *)
(* A second part models populateApiServices of package meta               *)
(* (pkg/composite/meta/meta.go), the breadth-first resolution of the types *)
(* of an API schema document.                                              *)
(***************************************************************************)
EXTENDS Integers, Sequences, FiniteSets, TLC

\* ------------------------------------------------------------------ bounds
\* Longest argument list of one Enqueue call.
MaxArgs == 2
\* The per-key failure count of the rate limiter saturates here.
MaxFailures == 2
\* Largest number of failures scripted into a stub sync function.
MaxScript == 2
\* Backoff of the rate limiter, in timer ticks: base delay and its cap.
BaseDelay == 1
MaxDelay == 2

\* ------------------------------------------------------------- the values
Keys == {"ns/foo", "ns/bar"}
NoKey == "<none>"

\* The key the counted history follows.
TrackedKey == "ns/foo"

\* The notified objects: API objects with a namespace and a name, and an
\* object with no metadata, from which no key can be derived.
Objs ==
    { [kind |-> "object", ns |-> "ns", name |-> "foo"],
      [kind |-> "object", ns |-> "ns", name |-> "bar"],
      [kind |-> "nometa", ns |-> "", name |-> ""] }

KeyErr == "<error>"

\* keyFunc: namespace/name of the object, an error when the object has no
\* metadata.
keyFunc(obj) ==
    IF obj.kind = "nometa" THEN KeyErr ELSE obj.ns \o "/" \o obj.name

\* The threads that can call Run.  The design starts one Run loop per queue
\* (OneRun); the specification TwoRunSpec lets every thread of Workers call
\* Run.
Workers == {"w1", "w2"}
OneRun == {"w1"}
Producers == {"p1"}
Callers == {"c1"}
\* Shutdown is called by a thread of Callers, or by a worker thread from
\* inside the sync function.
ShutdownThreads == Callers \cup Workers

Min(a, b) == IF a < b THEN a ELSE b
Range(s) == {s[i] : i \in 1..Len(s)}
Count(k, s) == Cardinality({i \in 1..Len(s) : s[i] = k})

RECURSIVE Pow2(_)
Pow2(n) == IF n = 0 THEN 1 ELSE 2 * Pow2(n - 1)

ArgLists == UNION {[1..n -> Objs] : n \in 1..MaxArgs}

\* --------------------------------------------------------------- the state
VARIABLES
    pending,      \* work queue: keys added and not yet handed out, in order
    active,       \* work queue: keys handed out by Get and not yet Done
    closed,       \* work queue: ShutDown() has been called
    failures,     \* rate limiter: per-key failure count
    waiting,      \* delayed adds: ticks left before the key is added, -1 = none
    wpc,          \* per worker: position in Run
    cur,          \* per worker: the key Get returned
    workerDone,   \* the workerDone channel: "open" or "closed"
    enqArgs,      \* per producer: the objects its Enqueue call has still to visit
    spc,          \* per caller of Shutdown: position in Shutdown
    syncFn,       \* the sync function: any function, or a counting stub
    \* history, read by the properties only
    sdReturns,    \* number of Shutdown() calls that have returned
    streak,       \* per key: consecutive Sync(key) errors since the last nil
    deduped,      \* an Enqueue of TrackedKey found it pending already
    syncLate,     \* a Sync started after a Shutdown() had returned
    busyAtShutdown, \* a Sync was in progress when Shutdown() was called
    lateEnq,      \* an Enqueue added TrackedKey after ShutDown() was called
    owed,         \* per key: ticks still to pass of the delay the rate limiter
                  \* computed at the last AddRateLimited(key)
    backoffEnq,   \* an Enqueue added TrackedKey while its delay was running
    \* package meta (pkg/composite/meta/meta.go)
    schemas,      \* result["schemas"]: per type name, its properties map if any
    typesQueue,   \* populateApiServices: queue of type names of the BFS
    completed,    \* populateApiServices: set of type names already parsed
    AllApiServices, \* the ApiService entries, in order
    apc           \* position in populateApiServices

queueVars == <<pending, active, closed, failures, waiting>>
histVars == <<sdReturns, streak, deduped, syncLate, busyAtShutdown, lateEnq,
              owed, backoffEnq>>
vars == <<pending, active, closed, failures, waiting, wpc, cur, workerDone,
          enqArgs, spc, syncFn, sdReturns, streak, deduped, syncLate,
          busyAtShutdown, lateEnq, owed, backoffEnq,
          schemas, typesQueue, completed, AllApiServices, apc>>
apiVars == <<schemas, typesQueue, completed, AllApiServices, apc>>
taskQueueVars == <<pending, active, closed, failures, waiting, wpc, cur, workerDone,
                   enqArgs, spc, syncFn, histVars>>

\* The task queue does not use package meta: its variables stay empty.
ApiNotLoaded ==
    /\ schemas = <<>>
    /\ typesQueue = <<>>
    /\ completed = {}
    /\ AllApiServices = <<>>
    /\ apc = "off"

\* The sync function handed to the constructor.  "any": a function that may
\* return an error or nil on every call.  "stub": a function that returns an
\* error on its first `fails` calls for TrackedKey and nil on every other
\* call, and counts its calls for TrackedKey (up to fails + 2).
AnySync == [kind |-> "any", fails |-> 0, calls |-> 0]
StubSync(n) == [kind |-> "stub", fails |-> n, calls |-> 0]
SyncCalled(fn, k) ==
    IF fn.kind = "stub" /\ k = TrackedKey
    THEN [fn EXCEPT !.calls = Min(fn.calls + 1, fn.fails + 2)]
    ELSE fn
SyncMayReturn(fn, k, failed) ==
    fn.kind = "stub" => (failed <=> (k = TrackedKey /\ fn.calls <= fn.fails))

\* NewPeriodicTaskQueueWithLimiter: an empty open queue, an open workerDone
\* channel; nobody has called Run, Enqueue or Shutdown yet.
Init ==
    /\ pending = <<>>
    /\ active = {}
    /\ closed = FALSE
    /\ failures = [k \in Keys |-> 0]
    /\ waiting = [k \in Keys |-> -1]
    /\ wpc = [w \in Workers |-> "idle"]
    /\ cur = [w \in Workers |-> NoKey]
    /\ workerDone = "open"
    /\ enqArgs = [p \in Producers |-> <<>>]
    /\ spc = [c \in ShutdownThreads |-> "idle"]
    /\ syncFn = AnySync
    /\ sdReturns = 0
    /\ streak = [k \in Keys |-> 0]
    /\ deduped = FALSE
    /\ syncLate = FALSE
    /\ busyAtShutdown = FALSE
    /\ lateEnq = FALSE
    /\ owed = [k \in Keys |-> 0]
    /\ backoffEnq = FALSE
    /\ ApiNotLoaded

\* ---------------------------------------------------- the work queue (4.1)
\* Add(key): insert into the pending keys if absent, no-op if already pending.
QueueAdd(q, k) == IF k \in Range(q) THEN q ELSE Append(q, k)

\* A variant of Get() that hands out the pending keys before it reports
\* that the queue is closed.
GetQuit_Drain(cl, q, act) == cl /\ \A i \in 1..Len(q) : q[i] \in act

\* Get() on a closed queue: the closed flag and no key, whatever is pending.
GetQuit(cl, q, act) == cl

\* A variant of the queue in which Add makes a key eligible at once, also
\* while the key waits out a backoff.
Eligible_IgnoreBackoff(q, act, wt) == {i \in 1..Len(q) : q[i] \notin act}

\* Get(): the first pending key that is not active (a key re-added while
\* active waits for its Done) and that is not waiting out a backoff (Add
\* does not bypass rate limiting); 0 when there is none.
Eligible(q, act, wt) == {i \in 1..Len(q) : q[i] \notin act /\ wt[q[i]] < 0}
FirstEligible(q, act, wt) ==
    IF Eligible(q, act, wt) = {} THEN 0
    ELSE CHOOSE i \in Eligible(q, act, wt) : \A j \in Eligible(q, act, wt) : i <= j
RemoveAt(q, i) == [j \in 1..(Len(q) - 1) |-> IF j < i THEN q[j] ELSE q[j + 1]]

\* The rate limiter: exponential per-key backoff from the base delay, capped.
When(f) == Min(BaseDelay * Pow2(f), MaxDelay)

\* AddRateLimited(key): schedule the key after When(failures), then advance
\* the failure count.  A key already scheduled keeps the earlier deadline.
AddRateLimited(k) ==
    /\ waiting' = [waiting EXCEPT ![k] =
                      IF waiting[k] >= 0 THEN Min(waiting[k], When(failures[k]))
                      ELSE When(failures[k])]
    /\ failures' = [failures EXCEPT ![k] = Min(failures[k] + 1, MaxFailures)]

\* Forget(key): reset the key's rate-limiter state to base.
Forget(k) ==
    /\ failures' = [failures EXCEPT ![k] = 0]
    /\ UNCHANGED waiting

\* One tick of the clock the delayed adds wait on.
Tick ==
    /\ \E k \in Keys : waiting[k] > 0
    /\ \A k \in Keys : waiting[k] # 0
    /\ waiting' = [k \in Keys |-> IF waiting[k] > 0 THEN waiting[k] - 1 ELSE waiting[k]]
    /\ owed' = [k \in Keys |-> IF owed[k] > 0 THEN owed[k] - 1 ELSE 0]
    /\ UNCHANGED <<syncFn, pending, active, closed, failures, wpc, cur, workerDone,
                   enqArgs, spc, sdReturns, streak, deduped, syncLate,
                   busyAtShutdown, lateEnq, backoffEnq, apiVars>>

\* The delay of a scheduled key has elapsed: the queue adds it.
TimerFire(k) ==
    /\ waiting[k] = 0
    /\ waiting' = [waiting EXCEPT ![k] = -1]
    /\ pending' = QueueAdd(pending, k)
    /\ UNCHANGED <<syncFn, active, closed, failures, wpc, cur, workerDone,
                   enqArgs, spc, histVars, apiVars>>

\* ------------------------------------------------------------------- Run
\* The positions of a worker between Get returning a key and Done.
InCycle == {"got", "sync", "requeue", "forget", "done"}

\* A variant of Run that does not look at the quit flag.
AfterGet_IgnoreQuit(quit) == "got"

\* if quit { close; return } else go on to sync the key.
AfterGet(quit) == IF quit THEN "quit" ELSE "got"

\* A variant of Run that requeues the key whatever Sync returned.
OnSyncResult_AlwaysRequeue(failed) == "requeue"

\* if err := t.sync(key); err != nil { AddRateLimited } else { Forget }
OnSyncResult(failed) == IF failed THEN "requeue" ELSE "forget"

\* Run is called on a worker thread.
RunCall(w) ==
    /\ wpc[w] = "idle"
    /\ wpc' = [wpc EXCEPT ![w] = "get"]
    /\ UNCHANGED <<syncFn, queueVars, cur, workerDone, enqArgs, spc, histVars, apiVars>>

\* key, quit := t.queue.Get(): blocks until a key is eligible or the queue
\* is closed; a closed queue returns the closed flag and no key.
Get(w) ==
    /\ wpc[w] = "get"
    /\ IF GetQuit(closed, pending, active)
       THEN /\ wpc' = [wpc EXCEPT ![w] = AfterGet(TRUE)]
            /\ UNCHANGED <<pending, active, cur, deduped>>
       ELSE /\ FirstEligible(pending, active, waiting) # 0
            /\ LET i == FirstEligible(pending, active, waiting)
                   k == pending[i]
               IN /\ pending' = RemoveAt(pending, i)
                  /\ active' = active \cup {k}
                  /\ cur' = [cur EXCEPT ![w] = k]
                  /\ deduped' = (deduped /\ k # TrackedKey)
            /\ wpc' = [wpc EXCEPT ![w] = AfterGet(FALSE)]
    /\ UNCHANGED <<syncFn, closed, failures, waiting, workerDone, enqArgs, spc,
                   sdReturns, streak, syncLate, busyAtShutdown, lateEnq, owed, backoffEnq, apiVars>>

\* A variant of Run that returns on quit without closing workerDone.
Quit_NoClose(w) ==
    /\ wpc[w] = "quit"
    /\ wpc' = [wpc EXCEPT ![w] = "returned"]
    /\ UNCHANGED <<syncFn, queueVars, cur, workerDone, enqArgs, spc, histVars, apiVars>>

\* if quit { close(t.workerDone); return }: the close of a channel that is
\* closed already is a run-time panic, which ends the thread (and, not
\* recovered, the process).
Quit(w) ==
    /\ wpc[w] = "quit"
    /\ IF workerDone = "open"
       THEN /\ workerDone' = "closed"
            /\ wpc' = [wpc EXCEPT ![w] = "returned"]
       ELSE /\ workerDone' = workerDone
            /\ wpc' = [wpc EXCEPT ![w] = "panicked"]
    /\ UNCHANGED <<syncFn, queueVars, cur, enqArgs, spc, histVars, apiVars>>

\* A variant of Run that marks the key done before it calls Sync.
SyncStart_DoneEarly(w) ==
    /\ wpc[w] = "got"
    /\ wpc' = [wpc EXCEPT ![w] = "sync"]
    /\ active' = active \ {cur[w]}
    /\ syncFn' = SyncCalled(syncFn, cur[w])
    /\ syncLate' = (syncLate \/ sdReturns > 0)
    /\ UNCHANGED <<pending, closed, failures, waiting, cur, workerDone, enqArgs, spc,
                   sdReturns, streak, deduped, busyAtShutdown, lateEnq, owed, backoffEnq, apiVars>>

\* t.sync(key) is invoked.
SyncStart(w) ==
    /\ wpc[w] = "got"
    /\ wpc' = [wpc EXCEPT ![w] = "sync"]
    /\ syncFn' = SyncCalled(syncFn, cur[w])
    /\ syncLate' = (syncLate \/ sdReturns > 0)
    /\ UNCHANGED <<queueVars, cur, workerDone, enqArgs, spc,
                   sdReturns, streak, deduped, busyAtShutdown, lateEnq, owed, backoffEnq, apiVars>>

\* t.sync(key) returns err (failed) or nil; it does not return while the
\* function is inside a call of Shutdown.
SyncReturn(w, failed) ==
    /\ wpc[w] = "sync"
    /\ spc[w] = "idle"
    /\ SyncMayReturn(syncFn, cur[w], failed)
    /\ wpc' = [wpc EXCEPT ![w] = OnSyncResult(failed)]
    /\ streak' = [streak EXCEPT ![cur[w]] =
                     IF failed THEN Min(streak[cur[w]] + 1, MaxFailures) ELSE 0]
    /\ UNCHANGED <<syncFn, queueVars, cur, workerDone, enqArgs, spc,
                   sdReturns, deduped, syncLate, busyAtShutdown, lateEnq, owed, backoffEnq, apiVars>>

\* A variant of Run that only logs the error of Sync.
Requeue_LogOnly(w) ==
    /\ wpc[w] = "requeue"
    /\ wpc' = [wpc EXCEPT ![w] = "done"]
    /\ UNCHANGED <<syncFn, queueVars, cur, workerDone, enqArgs, spc, histVars, apiVars>>

\* err != nil: t.queue.AddRateLimited(key)
Requeue(w) ==
    /\ wpc[w] = "requeue"
    /\ AddRateLimited(cur[w])
    /\ owed' = [owed EXCEPT ![cur[w]] = When(failures[cur[w]])]
    /\ wpc' = [wpc EXCEPT ![w] = "done"]
    /\ UNCHANGED <<syncFn, pending, active, closed, cur, workerDone, enqArgs, spc,
                   sdReturns, streak, deduped, syncLate, busyAtShutdown, lateEnq,
                   backoffEnq, apiVars>>

\* A variant of Run that does not call Forget after a successful Sync.
Forgot_NoReset(w) ==
    /\ wpc[w] = "forget"
    /\ wpc' = [wpc EXCEPT ![w] = "done"]
    /\ UNCHANGED <<syncFn, queueVars, cur, workerDone, enqArgs, spc, histVars, apiVars>>

\* err == nil: t.queue.Forget(key)
Forgot(w) ==
    /\ wpc[w] = "forget"
    /\ Forget(cur[w])
    /\ wpc' = [wpc EXCEPT ![w] = "done"]
    /\ UNCHANGED <<syncFn, pending, active, closed, cur, workerDone, enqArgs, spc,
                   sdReturns, streak, deduped, syncLate, busyAtShutdown, lateEnq, owed, backoffEnq, apiVars>>

\* A variant of Run that goes round the loop without calling Done.
Done_Skip(w) ==
    /\ wpc[w] = "done"
    /\ cur' = [cur EXCEPT ![w] = NoKey]
    /\ wpc' = [wpc EXCEPT ![w] = "get"]
    /\ UNCHANGED <<syncFn, queueVars, workerDone, enqArgs, spc, histVars, apiVars>>

\* t.queue.Done(key), then round the loop to Get.
Done(w) ==
    /\ wpc[w] = "done"
    /\ active' = active \ {cur[w]}
    /\ cur' = [cur EXCEPT ![w] = NoKey]
    /\ wpc' = [wpc EXCEPT ![w] = "get"]
    /\ backoffEnq' = (backoffEnq /\ cur[w] # TrackedKey)
    /\ UNCHANGED <<syncFn, pending, closed, failures, waiting, workerDone, enqArgs, spc,
                   sdReturns, streak, deduped, syncLate, busyAtShutdown, lateEnq,
                   owed, apiVars>>

\* -------------------------------------------------------------- Enqueue
\* A variant of Enqueue that appends the key without the queue's Add.
EnqueueAdd_NoDedup(q, key) == Append(q, key)

\* t.queue.Add(key)
EnqueueAdd(q, key) == QueueAdd(q, key)

\* Enqueue(objs...) is called with a non-empty argument list.
EnqueueCall(p, objs) ==
    /\ enqArgs[p] = <<>>
    /\ enqArgs' = [enqArgs EXCEPT ![p] = objs]
    /\ UNCHANGED <<syncFn, queueVars, wpc, cur, workerDone, spc, histVars, apiVars>>

\* One round of the loop over objs: a key error logs and returns from
\* Enqueue, leaving the remaining objects unvisited; a key is added.
EnqueueStep(p) ==
    /\ enqArgs[p] # <<>>
    /\ LET obj == Head(enqArgs[p])
           key == keyFunc(obj)
           rest == Tail(enqArgs[p])
       IN IF key = KeyErr
          THEN /\ enqArgs' = [enqArgs EXCEPT ![p] = <<>>]
               /\ UNCHANGED <<pending, deduped, lateEnq, backoffEnq>>
          ELSE /\ enqArgs' = [enqArgs EXCEPT ![p] = rest]
               /\ pending' = EnqueueAdd(pending, key)
               /\ deduped' = (deduped \/ (key = TrackedKey /\ key \in Range(pending)))
               /\ lateEnq' = (lateEnq \/ (closed /\ key = TrackedKey))
               /\ backoffEnq' = (backoffEnq \/ (key = TrackedKey /\ owed[key] > 0))
    /\ UNCHANGED <<syncFn, active, closed, failures, waiting, wpc, cur, workerDone, spc,
                   sdReturns, streak, syncLate, busyAtShutdown, owed, apiVars>>

\* ------------------------------------------------------------- Shutdown
\* A variant of Shutdown that closes workerDone itself instead of waiting
\* for the worker to close it.
ShutdownCall_Closes(c) ==
    /\ spc[c] = "idle"
    /\ closed' = TRUE
    /\ workerDone' = "closed"
    /\ spc' = [spc EXCEPT ![c] = "wait"]
    /\ busyAtShutdown' = (busyAtShutdown \/ \E w \in Workers : wpc[w] = "sync")
    /\ UNCHANGED <<syncFn, pending, active, failures, waiting, wpc, cur,
                   enqArgs, sdReturns, streak, deduped, syncLate, lateEnq,
                   owed, backoffEnq, apiVars>>

\* t.queue.ShutDown(); a worker thread can make the call only from inside
\* the sync function.
ShutdownCall(c) ==
    /\ spc[c] = "idle"
    /\ c \in Workers => wpc[c] = "sync"
    /\ closed' = TRUE
    /\ spc' = [spc EXCEPT ![c] = "wait"]
    /\ busyAtShutdown' = (busyAtShutdown \/ \E w \in Workers : wpc[w] = "sync")
    /\ UNCHANGED <<syncFn, pending, active, failures, waiting, wpc, cur, workerDone,
                   enqArgs, sdReturns, streak, deduped, syncLate, lateEnq, owed, backoffEnq, apiVars>>

\* A variant of Shutdown that does not wait for workerDone.
ShutdownMayReturn_NoWait(ch) == TRUE

\* <-t.workerDone returns once the channel is closed.
ShutdownMayReturn(ch) == ch = "closed"

\* A variant in which workerDone carries one signal that the receive of
\* Shutdown takes away.
ShutdownReturn_Consume(c) ==
    /\ spc[c] = "wait"
    /\ ShutdownMayReturn(workerDone)
    /\ workerDone' = "open"
    /\ spc' = [spc EXCEPT ![c] = "idle"]
    /\ sdReturns' = Min(sdReturns + 1, 2)
    /\ UNCHANGED <<syncFn, queueVars, wpc, cur, enqArgs,
                   streak, deduped, syncLate, busyAtShutdown, lateEnq, owed,
                   backoffEnq, apiVars>>

\* <-t.workerDone: returns once the channel is closed.
ShutdownReturn(c) ==
    /\ spc[c] = "wait"
    /\ ShutdownMayReturn(workerDone)
    /\ spc' = [spc EXCEPT ![c] = "idle"]
    /\ sdReturns' = Min(sdReturns + 1, 2)
    /\ UNCHANGED <<syncFn, queueVars, wpc, cur, workerDone, enqArgs,
                   streak, deduped, syncLate, busyAtShutdown, lateEnq, owed, backoffEnq, apiVars>>

\* ------------------------------------------------------------ the system
Next ==
    \/ \E w \in OneRun : RunCall(w)
    \/ \E w \in Workers : Get(w)
    \/ \E w \in Workers : Quit(w)
    \/ \E w \in Workers : SyncStart(w)
    \/ \E w \in Workers, failed \in BOOLEAN : SyncReturn(w, failed)
    \/ \E w \in Workers : Requeue(w)
    \/ \E w \in Workers : Forgot(w)
    \/ \E w \in Workers : Done(w)
    \/ \E p \in Producers, objs \in ArgLists : EnqueueCall(p, objs)
    \/ \E p \in Producers : EnqueueStep(p)
    \/ \E c \in Callers : ShutdownCall(c)
    \/ \E c \in Callers : ShutdownReturn(c)
    \/ Tick
    \/ \E k \in Keys : TimerFire(k)

Spec == Init /\ [][Next]_vars

\* The worker thread keeps running, every Sync call returns, and the clock
\* and the delayed adds of the queue make progress.
Fairness ==
    /\ \A w \in Workers :
          /\ WF_vars(Get(w))
          /\ WF_vars(Quit(w))
          /\ WF_vars(SyncStart(w))
          /\ WF_vars(\E failed \in BOOLEAN : SyncReturn(w, failed))
          /\ WF_vars(Requeue(w))
          /\ WF_vars(Forgot(w))
          /\ WF_vars(Done(w))
    /\ WF_vars(Tick)
    /\ \A k \in Keys : WF_vars(TimerFire(k))

\* The fair behaviours are explored with Enqueue calls of one object: a
\* call with several objects adds its keys one at a time, as so many calls
\* do.
SingleArgLists == {l \in ArgLists : Len(l) = 1}

FairNext ==
    \/ \E w \in OneRun : RunCall(w)
    \/ \E w \in Workers : Get(w)
    \/ \E w \in Workers : Quit(w)
    \/ \E w \in Workers : SyncStart(w)
    \/ \E w \in Workers, failed \in BOOLEAN : SyncReturn(w, failed)
    \/ \E w \in Workers : Requeue(w)
    \/ \E w \in Workers : Forgot(w)
    \/ \E w \in Workers : Done(w)
    \/ \E p \in Producers, objs \in SingleArgLists : EnqueueCall(p, objs)
    \/ \E p \in Producers : EnqueueStep(p)
    \/ \E c \in Callers : ShutdownCall(c)
    \/ \E c \in Callers : ShutdownReturn(c)
    \/ Tick
    \/ \E k \in Keys : TimerFire(k)

FairSpec == Init /\ [][FairNext]_vars /\ Fairness

\* Nothing in Run or in the constructor keeps a second thread from calling
\* Run on the same queue: every thread of Workers may call it.
TwoRunNext ==
    \/ \E w \in Workers : RunCall(w)
    \/ \E w \in Workers : Get(w)
    \/ \E w \in Workers : Quit(w)
    \/ \E w \in Workers : SyncStart(w)
    \/ \E w \in Workers, failed \in BOOLEAN : SyncReturn(w, failed)
    \/ \E w \in Workers : Requeue(w)
    \/ \E w \in Workers : Forgot(w)
    \/ \E w \in Workers : Done(w)
    \/ \E p \in Producers, objs \in SingleArgLists : EnqueueCall(p, objs)
    \/ \E p \in Producers : EnqueueStep(p)
    \/ \E c \in Callers : ShutdownCall(c)
    \/ \E c \in Callers : ShutdownReturn(c)
    \/ Tick
    \/ \E k \in Keys : TimerFire(k)

TwoRunSpec == Init /\ [][TwoRunNext]_vars

\* The sync function may call Shutdown on the queue it is called from; the
\* thread of a Shutdown call goes on once workerDone is closed.
SelfShutdownNext ==
    \/ \E w \in OneRun : RunCall(w)
    \/ \E w \in Workers : Get(w)
    \/ \E w \in Workers : Quit(w)
    \/ \E w \in Workers : SyncStart(w)
    \/ \E w \in Workers, failed \in BOOLEAN : SyncReturn(w, failed)
    \/ \E w \in Workers : Requeue(w)
    \/ \E w \in Workers : Forgot(w)
    \/ \E w \in Workers : Done(w)
    \/ \E p \in Producers, objs \in SingleArgLists : EnqueueCall(p, objs)
    \/ \E p \in Producers : EnqueueStep(p)
    \/ \E c \in ShutdownThreads : ShutdownCall(c)
    \/ \E c \in ShutdownThreads : ShutdownReturn(c)
    \/ Tick
    \/ \E k \in Keys : TimerFire(k)

SelfShutdownSpec ==
    /\ Init
    /\ [][SelfShutdownNext]_vars
    /\ Fairness
    /\ \A c \in ShutdownThreads : WF_vars(ShutdownReturn(c))

\* The fail-then-succeed scenario: the queue is built with a stub sync
\* function that fails n times for TrackedKey, and Enqueue is called once
\* with an object that maps to TrackedKey; further Enqueue calls carry
\* objects that do not map to it, and Shutdown is not called.
TrackedObjs == {o \in Objs : keyFunc(o) = TrackedKey}
OtherArgLists ==
    {l \in ArgLists : \A i \in 1..Len(l) : keyFunc(l[i]) # TrackedKey}

StubInit ==
    /\ pending = <<>>
    /\ active = {}
    /\ closed = FALSE
    /\ failures = [k \in Keys |-> 0]
    /\ waiting = [k \in Keys |-> -1]
    /\ wpc = [w \in Workers |-> "idle"]
    /\ cur = [w \in Workers |-> NoKey]
    /\ workerDone = "open"
    /\ \E o \in TrackedObjs : enqArgs = [p \in Producers |-> <<o>>]
    /\ spc = [c \in ShutdownThreads |-> "idle"]
    /\ \E n \in 0..MaxScript : syncFn = StubSync(n)
    /\ sdReturns = 0
    /\ streak = [k \in Keys |-> 0]
    /\ deduped = FALSE
    /\ syncLate = FALSE
    /\ busyAtShutdown = FALSE
    /\ lateEnq = FALSE
    /\ owed = [k \in Keys |-> 0]
    /\ backoffEnq = FALSE
    /\ ApiNotLoaded

StubNext ==
    \/ \E w \in OneRun : RunCall(w)
    \/ \E w \in Workers : Get(w)
    \/ \E w \in Workers : SyncStart(w)
    \/ \E w \in Workers, failed \in BOOLEAN : SyncReturn(w, failed)
    \/ \E w \in Workers : Requeue(w)
    \/ \E w \in Workers : Forgot(w)
    \/ \E w \in Workers : Done(w)
    \/ \E p \in Producers, objs \in OtherArgLists : EnqueueCall(p, objs)
    \/ \E p \in Producers : EnqueueStep(p)
    \/ Tick
    \/ \E k \in Keys : TimerFire(k)

StubSpec == StubInit /\ [][StubNext]_vars

\* ------------------------------------------- package meta (meta.go)
\* Largest number of properties of one type of the schema document.
MaxProps == 2

\* The type names of the schema document, in the order of Go's string <.
NameOrder == <<"A", "B", "C">>
TypeNames == Range(NameOrder)
NameRank(n) == CHOOSE i \in 1..Len(NameOrder) : NameOrder[i] = n
NameLess(a, b) == NameRank(a) < NameRank(b)

\* The keys of MainServices: the one service the helpers are built for.
MainServices == {"B"}

\* A property value of the document: the keys "$ref", "type", "format",
\* "items" and "additionalProperties", None or <<>> when the key is absent.
None == "<absent>"
RefTo(t) ==
    [ref |-> t, type |-> None, format |-> None, items |-> <<>>, addl |-> <<>>]
ArrayOf(val) ==
    [ref |-> None, type |-> "array", format |-> None, items |-> <<val>>, addl |-> <<>>]
MapOf(val) ==
    [ref |-> None, type |-> "object", format |-> None, items |-> <<>>, addl |-> <<val>>]
Plain(type, format) ==
    [ref |-> None, type |-> type, format |-> format, items |-> <<>>, addl |-> <<>>]

\* The properties a type of the document can have: a reference, an array
\* of references, a map of references, a string with a format, and a
\* property whose "type" is the empty string.
Properties ==
    { [prop |-> "a", val |-> RefTo("A")],
      [prop |-> "b", val |-> ArrayOf(RefTo("B"))],
      [prop |-> "c", val |-> MapOf(RefTo("C"))],
      [prop |-> "d", val |-> Plain("string", "int64")],
      [prop |-> "e", val |-> Plain("", None)] }

\* A schema: with a properties map or without one.
NoProps == [hasProps |-> FALSE, properties |-> {}]
TypeSchemas ==
    {NoProps} \cup
    { [hasProps |-> TRUE, properties |-> S] :
         S \in {T \in SUBSET Properties : Cardinality(T) <= MaxProps} }

\* The orders in which a range loop can visit the elements of a map.
RangeOrders(S) == {o \in [1..Cardinality(S) -> S] : Range(o) = S}

\* getGoType(val, typesQueue): the Go type of the property, the queue with
\* the referenced type appended, the string override, and err (or a panic
\* of a type assertion) when the property has no usable type.
RECURSIVE getGoType(_, _)
getGoType(field, q) ==
    LET failed == [propType |-> "", typesQueue |-> q, override |-> FALSE, err |-> TRUE]
        wrap(prefix, inner) ==
            IF inner = <<>> THEN failed
            ELSE LET t == getGoType(inner[1], q)
                 IN [propType |-> prefix \o t.propType, typesQueue |-> t.typesQueue,
                     override |-> t.override, err |-> t.err]
        leaf(goType) ==
            [propType |-> goType, typesQueue |-> q, override |-> FALSE, err |-> FALSE]
        r == IF field.ref # None
                THEN [propType |-> "*" \o field.ref, typesQueue |-> Append(q, field.ref),
                      override |-> FALSE, err |-> FALSE]
             ELSE IF field.type = "array" THEN wrap("[]", field.items)
             ELSE IF field.type = "object"
                THEN IF field.addl # <<>> THEN wrap("map[string]", field.addl)
                     ELSE leaf("map[string]string")
             ELSE IF field.format # None
                THEN leaf(IF field.format = "byte" THEN "string"
                          ELSE IF field.format = "float" THEN "float64"
                          ELSE IF field.format = "int32" THEN "int64"
                          ELSE field.format)
             ELSE IF field.type = None THEN failed
             ELSE IF field.type # ""
                THEN leaf(IF field.type = "boolean" THEN "bool" ELSE field.type)
             ELSE failed
    IN [r EXCEPT !.override = r.override \/ (field.type = "string" /\ r.propType # "string")]

\* for prop, val := range fields: the properties in the order of the range
\* loop, from the i-th on; the loop ends in a panic at the first err.
RECURSIVE VisitFields(_, _, _, _)
VisitFields(order, i, q, fields) ==
    IF i > Len(order) THEN [typesQueue |-> q, Fields |-> fields, err |-> FALSE]
    ELSE LET r == getGoType(order[i].val, q)
         IN IF r.err THEN [typesQueue |-> r.typesQueue, Fields |-> fields, err |-> TRUE]
            ELSE VisitFields(order, i + 1, r.typesQueue,
                             fields \cup {[JsonName |-> order[i].prop,
                                           GoType |-> r.propType,
                                           JsonStringOverride |-> r.override]})

\* sort.Slice by Name: the orders of the entries that are ascending.
SortedByName(s) ==
    LET n == Len(s)
        perms == {f \in [1..n -> 1..n] : \A i, j \in 1..n : i # j => f[i] # f[j]}
    IN {[i \in 1..n |-> s[f[i]]] : f \in
           {g \in perms : \A i \in 1..(n - 1) : ~NameLess(s[g[i + 1]].Name, s[g[i]].Name)}}

\* A variant of the loop that parses a type name every time it is taken.
IsCompleted_Never(done, typeName) == FALSE

\* completed.Has(typeName)
IsCompleted(done, typeName) == typeName \in done

\* init(): the document is read, AllApiServices is empty.
ApiInit ==
    /\ pending = <<>>
    /\ active = {}
    /\ closed = FALSE
    /\ failures = [k \in Keys |-> 0]
    /\ waiting = [k \in Keys |-> -1]
    /\ wpc = [w \in Workers |-> "idle"]
    /\ cur = [w \in Workers |-> NoKey]
    /\ workerDone = "open"
    /\ enqArgs = [p \in Producers |-> <<>>]
    /\ spc = [c \in ShutdownThreads |-> "idle"]
    /\ syncFn = AnySync
    /\ sdReturns = 0
    /\ streak = [k \in Keys |-> 0]
    /\ deduped = FALSE
    /\ syncLate = FALSE
    /\ busyAtShutdown = FALSE
    /\ lateEnq = FALSE
    /\ owed = [k \in Keys |-> 0]
    /\ backoffEnq = FALSE
    /\ schemas \in [TypeNames -> TypeSchemas]
    /\ typesQueue = <<>>
    /\ completed = {}
    /\ AllApiServices = <<>>
    /\ apc = "start"

\* typesQueue = append(typesQueue, keys...), the keys of MainServices in
\* the order of the range loop.
ApiStart ==
    /\ apc = "start"
    /\ \E keys \in RangeOrders(MainServices) : typesQueue' = typesQueue \o keys
    /\ apc' = "loop"
    /\ UNCHANGED <<schemas, completed, AllApiServices, taskQueueVars>>

\* One round of `for len(typesQueue) > 0`: a completed name is skipped; a
\* type without a properties map, or a property without a usable type, is
\* a panic; otherwise the entry of the type is appended.
ApiVisit ==
    /\ apc = "loop"
    /\ typesQueue # <<>>
    /\ LET typeName == Head(typesQueue)
           rest == Tail(typesQueue)
       IN IF IsCompleted(completed, typeName)
          THEN /\ typesQueue' = rest
               /\ UNCHANGED <<completed, AllApiServices, apc>>
          ELSE /\ completed' = completed \cup {typeName}
               /\ IF ~schemas[typeName].hasProps
                  THEN /\ apc' = "panicked"
                       /\ typesQueue' = rest
                       /\ UNCHANGED AllApiServices
                  ELSE \E order \in RangeOrders(schemas[typeName].properties) :
                          LET r == VisitFields(order, 1, rest, {})
                          IN /\ typesQueue' = r.typesQueue
                             /\ IF r.err
                                THEN /\ apc' = "panicked"
                                     /\ UNCHANGED AllApiServices
                                ELSE /\ apc' = apc
                                     /\ AllApiServices' =
                                           Append(AllApiServices,
                                                  [Name |-> typeName, Fields |-> r.Fields])
    /\ UNCHANGED <<schemas, taskQueueVars>>

\* The queue is empty: sort.Slice(AllApiServices) by Name, and return.
ApiSort ==
    /\ apc = "loop"
    /\ typesQueue = <<>>
    /\ \E sorted \in SortedByName(AllApiServices) : AllApiServices' = sorted
    /\ apc' = "done"
    /\ UNCHANGED <<schemas, typesQueue, completed, taskQueueVars>>

ApiNext ==
    \/ ApiStart
    \/ ApiVisit
    \/ ApiSort

\* init() runs populateApiServices to its end.
ApiSpec == ApiInit /\ [][ApiNext]_vars /\ WF_vars(ApiNext)

\* -------------------------------------------------------- the properties
\* Steps of the worker, as seen in a pair of states.
GetReturns(w) == wpc[w] = "get" /\ wpc'[w] # "get"
GetReturnsKey(w, k) == wpc[w] = "get" /\ wpc'[w] = "got" /\ cur'[w] = k
SyncStarts(w) == wpc[w] = "got" /\ wpc'[w] = "sync"
DoneReturns(w) == wpc[w] = "done" /\ wpc'[w] = "get"
EnqueueReturns(p) == enqArgs[p] # <<>> /\ enqArgs'[p] = <<>>

\* C1 (Dedup): a key is never held more than once in the pending keys,
\* however often it is enqueued before the worker takes it, and the Get
\* that takes it leaves no further instance of it behind: the enqueues
\* made before that Get result in that one dispatch.
C1_Dedup ==
    /\ [](\A k \in Keys : Count(k, pending) <= 1)
    /\ [][\A w \in Workers, k \in Keys :
            GetReturnsKey(w, k) => k \notin Range(pending')]_vars

\* C1 witness: the tracked key was enqueued again while pending and not yet
\* taken, and is held once.
C1_Witness ==
    /\ deduped
    /\ Count(TrackedKey, pending) = 1
    /\ TrackedKey \notin active

\* C2 (Extraction failure isolation): when an Enqueue call returns, the key
\* of every argument it had still to visit, and from which a key can be
\* derived, has been added to the queue.
C2_FailureIsolation ==
    [][\A p \in Producers :
          EnqueueReturns(p) =>
             \A i \in 1..Len(enqArgs[p]) :
                keyFunc(enqArgs[p][i]) # KeyErr
                   => keyFunc(enqArgs[p][i]) \in Range(pending')]_vars

\* C3 (Graceful shutdown): once a Shutdown() has returned, no Sync starts,
\* and no worker is between Get and Done: a Sync that was in progress has
\* finished, with its AddRateLimited or Forget and its Done.
C3_GracefulShutdown ==
    sdReturns > 0 =>
        /\ ~syncLate
        /\ \A w \in Workers : wpc[w] \notin InCycle
        /\ active = {}

\* C3 witness: a Shutdown() called while a Sync was in progress has returned.
C3_Witness == sdReturns > 0 /\ busyAtShutdown

\* C4 as stated: once ShutDown() has been called on the queue, no Sync
\* invocation starts.
C4_NoSyncAfterShutDown ==
    [][closed => \A w \in Workers : ~SyncStarts(w)]_vars

\* C4 amended: once ShutDown() has been called on the queue, every Get()
\* that returns returns the closed flag and no key and takes nothing from
\* the pending keys, so a Sync that starts after that point is for a key
\* that Get() returned before it.
C4_GetAfterShutDown ==
    [][closed =>
          \A w \in Workers :
             GetReturns(w) =>
                /\ wpc'[w] = "quit"
                /\ cur'[w] = NoKey
                /\ pending' = pending
                /\ active' = active]_vars

\* C4 witness: Get() has returned the closed flag while keys are pending.
C4_Witness ==
    \E w \in Workers : wpc[w] = "quit" /\ closed /\ pending # <<>>


\* C5 (Retry on failure): under Fairness, whenever Sync(k) has returned an
\* error, Sync(k) is invoked again, whether or not k is enqueued again,
\* unless ShutDown() is called on the queue.
C5_RetryOnFailure ==
    \A k \in Keys :
       (\E w \in Workers : wpc[w] = "requeue" /\ cur[w] = k)
          ~> (closed \/ \E w \in Workers : wpc[w] = "sync" /\ cur[w] = k)

\* C5 witness: Sync(k) is running again for a key whose last Sync failed,
\* with the queue open and the delayed add spent.
C5_Witness ==
    \E w \in Workers :
       /\ wpc[w] = "sync"
       /\ streak[cur[w]] > 0
       /\ waiting[cur[w]] = -1
       /\ ~closed

\* C6 (Serialization): at most one worker is between Get and Done for a
\* key, the key is in the active set all that time, and Get hands out no
\* key of the active set: a key is not handed out again before its Done.
C6_Serialization ==
    /\ [](\A k \in Keys :
            /\ Cardinality({w \in Workers : wpc[w] \in InCycle /\ cur[w] = k}) <= 1
            /\ (k \in active <=> \E w \in Workers : wpc[w] \in InCycle /\ cur[w] = k))
    /\ [][\A w \in Workers, k \in Keys :
            GetReturnsKey(w, k) => k \notin active]_vars

\* C6 witness: a key is enqueued again while its Sync is in progress.
C6_Witness ==
    \E w \in Workers, p \in Producers :
       /\ wpc[w] = "sync"
       /\ enqArgs[p] # <<>>
       /\ keyFunc(Head(enqArgs[p])) = cur[w]

\* C7 (Reset on success): outside the step that applies the result of a
\* Sync, the failure count of a key is the number of consecutive errors of
\* its Sync since the last nil (one more per error, zero after a nil), and
\* after the first error of a streak the key waits no longer than the base
\* delay.
Applying(k) == \E w \in Workers : wpc[w] \in {"requeue", "forget"} /\ cur[w] = k
C7_ResetOnSuccess ==
    \A k \in Keys :
       ~Applying(k) =>
          /\ failures[k] = streak[k]
          /\ (streak[k] = 1 => waiting[k] <= BaseDelay)

\* C7 witness: the first error of a streak has been applied: the failure
\* count is one and the key waits the base delay.
C7_Witness ==
    \E k \in Keys :
       /\ ~Applying(k)
       /\ streak[k] = 1
       /\ failures[k] = 1
       /\ waiting[k] = BaseDelay
       /\ k \in active

\* C8 (Fail n times, then succeed): with a stub sync function that fails n
\* times for the key and one Enqueue of the key, Sync(key) is never called
\* more than n + 1 times, and has been called exactly n + 1 times once
\* nothing of the key is left in flight.
TrackedSettled ==
    /\ TrackedKey \notin Range(pending)
    /\ waiting[TrackedKey] = -1
    /\ \A w \in Workers : cur[w] # TrackedKey
    /\ \A p \in Producers : \A i \in 1..Len(enqArgs[p]) :
          keyFunc(enqArgs[p][i]) # TrackedKey
C8_FailThenSucceed ==
    /\ syncFn.calls <= syncFn.fails + 1
    /\ (TrackedSettled => syncFn.calls = syncFn.fails + 1)

\* C8 witness: after at least one failure the key is at rest.
C8_Witness ==
    /\ TrackedSettled
    /\ syncFn.fails >= 1
    /\ syncFn.calls = syncFn.fails + 1

\* C9 (Re-notification while active): a key enqueued while active is kept
\* in the pending keys, once, is not handed out while it is active, and
\* the Done of the key after a Sync that returned nil leaves it pending,
\* once, and no longer active, so that the next Get can hand it out; under
\* Fairness its Sync is then invoked again, unless ShutDown() is called on
\* the queue.
C9_DeferredReAdd ==
    /\ [](\A k \in active : Count(k, pending) <= 1 /\
              \A i \in Eligible(pending, active, waiting) : pending[i] # k)
    /\ [][\A p \in Producers :
            (enqArgs[p] # <<>> /\ enqArgs'[p] # enqArgs[p]
               /\ keyFunc(Head(enqArgs[p])) \in active)
                  => Count(keyFunc(Head(enqArgs[p])), pending') = 1]_vars
    /\ [][\A w \in Workers :
            (DoneReturns(w) /\ cur[w] \in Range(pending) /\ streak[cur[w]] = 0)
               => /\ Count(cur[w], pending') = 1
                  /\ cur[w] \notin active'
                  /\ \E i \in Eligible(pending', active', waiting') :
                        pending'[i] = cur[w]]_vars
    /\ \A k \in Keys :
          (\E w \in Workers : wpc[w] = "done" /\ cur[w] = k /\ k \in Range(pending))
             ~> (closed \/ \E w \in Workers : wpc[w] = "sync" /\ cur[w] = k)

\* C9 witness: the Sync of a key has returned nil, the key was enqueued
\* while it was active, and its Done is about to be called.
C9_Witness ==
    \E w \in Workers :
       /\ wpc[w] = "done"
       /\ streak[cur[w]] = 0
       /\ cur[w] \in Range(pending)

\* C10 (Run lifecycle): Run returns only after ShutDown() was called on
\* the queue and with workerDone closed; a Run that has returned stays
\* returned; and, under Fairness, a running Run returns once ShutDown()
\* has been called.
C10_RunLifecycle ==
    /\ [](\A w \in Workers :
            /\ (wpc[w] \in {"quit", "returned"} => closed)
            /\ (wpc[w] = "returned" => workerDone = "closed"))
    /\ [][\A w \in Workers :
            wpc[w] = "returned" => (wpc'[w] = "returned" /\ cur'[w] = cur[w])]_vars
    /\ \A w \in Workers :
          (closed /\ wpc[w] # "idle") ~> (wpc[w] = "returned")

\* C10 witness: Run has returned although keys are still pending.
C10_Witness ==
    \E w \in Workers : wpc[w] = "returned" /\ pending # <<>>

\* C11 as stated: a key carried by an Enqueue call made after ShutDown()
\* was called on the queue is never passed to Sync afterwards.
C11_LateKeyNeverSynced ==
    [][lateEnq => \A w \in Workers : SyncStarts(w) => cur[w] # TrackedKey]_vars

\* C11 amended: an Enqueue call made after ShutDown() was called on the
\* queue never blocks, its step changes nothing but the pending keys and
\* its own progress, and the key it adds stays in the pending keys: no
\* Get() hands it out, so the only Sync of that key that can still start is
\* for a dispatch made before ShutDown().
C11_ShutdownRace ==
    /\ [](\A p \in Producers :
            (closed /\ enqArgs[p] # <<>>) => ENABLED EnqueueStep(p))
    /\ [](lateEnq => TrackedKey \in Range(pending))
    /\ [][\A p \in Producers :
            (closed /\ enqArgs[p] # <<>> /\ enqArgs'[p] # enqArgs[p])
               => /\ Len(enqArgs'[p]) < Len(enqArgs[p])
                  /\ UNCHANGED <<active, closed, failures, waiting, wpc, cur,
                                 workerDone, spc, sdReturns, syncLate>>]_vars

\* C11 witness: an Enqueue call made after ShutDown() has added TrackedKey
\* and returned, and the worker loop has exited.
C11_Witness ==
    /\ lateEnq
    /\ \A p \in Producers : enqArgs[p] = <<>>
    /\ \E w \in Workers : wpc[w] = "returned"

\* C12 (Worker protocol): a worker goes from Get to Sync, from Sync to
\* Forget when Sync returned nil and to AddRateLimited when it returned an
\* error, from either to Done and from Done to the next Get, holding the
\* same key all the way; the step after a nil resets the failure count and
\* schedules nothing, the step after an error schedules the key, and Done
\* takes the key out of the active set.  The active set never holds more
\* than one key and is empty when no worker is between Get and Done.
C12_WorkerProtocol ==
    /\ [][\A w \in Workers :
            /\ wpc'[w] # wpc[w] =>
                  \/ wpc[w] = "idle" /\ wpc'[w] = "get"
                  \/ wpc[w] = "get" /\ wpc'[w] \in {"got", "quit"}
                  \/ wpc[w] = "got" /\ wpc'[w] = "sync"
                  \/ wpc[w] = "sync" /\ wpc'[w] = "forget" /\ streak'[cur[w]] = 0
                  \/ wpc[w] = "sync" /\ wpc'[w] = "requeue" /\ streak'[cur[w]] > 0
                  \/ wpc[w] \in {"forget", "requeue"} /\ wpc'[w] = "done"
                  \/ wpc[w] = "done" /\ wpc'[w] = "get"
                  \/ wpc[w] = "quit" /\ wpc'[w] = "returned"
            /\ (wpc[w] \in InCycle /\ wpc'[w] \in InCycle) => cur'[w] = cur[w]
            /\ (wpc[w] = "forget" /\ wpc'[w] = "done") =>
                  /\ failures'[cur[w]] = 0
                  /\ waiting' = waiting
            /\ (wpc[w] = "requeue" /\ wpc'[w] = "done") =>
                  /\ failures'[cur[w]] = Min(failures[cur[w]] + 1, MaxFailures)
                  /\ waiting'[cur[w]] >= 0
            /\ DoneReturns(w) =>
                  /\ cur[w] \in active
                  /\ active' = active \ {cur[w]}]_vars
    /\ [](/\ Cardinality(active) <= 1
          /\ ((\A w \in Workers : wpc[w] \notin InCycle) => active = {}))

\* C12 witness: the worker is back in Get after a cycle that went through
\* AddRateLimited, and the active set is empty.
C12_Witness ==
    /\ \E w \in Workers : wpc[w] = "get"
    /\ active = {}
    /\ \E k \in Keys : failures[k] > 0 /\ streak[k] > 0

\* C13 (Backoff delay is respected): the AddRateLimited(k) that follows an
\* error of Sync(k) computes a delay of at least the base delay, which is
\* not zero, and neither Get() hands out k nor Sync(k) starts while ticks
\* of the delay computed at the last AddRateLimited(k) are still to pass.
C13_BackoffRespected ==
    /\ [][\A w \in Workers :
            (wpc[w] = "requeue" /\ wpc'[w] = "done") =>
               /\ owed'[cur[w]] = When(failures[cur[w]])
               /\ owed'[cur[w]] >= BaseDelay
               /\ BaseDelay > 0]_vars
    /\ [][\A w \in Workers :
            /\ \A k \in Keys : GetReturnsKey(w, k) => owed[k] = 0
            /\ SyncStarts(w) => owed[cur[w]] = 0]_vars
    /\ [](\A w \in Workers : wpc[w] \in {"got", "sync"} => owed[cur[w]] = 0)

\* C13 witness: after two consecutive errors of Sync(k), the third Sync(k)
\* is running, the delay having passed.
C13_Witness ==
    \E w \in Workers :
       /\ wpc[w] = "sync"
       /\ streak[cur[w]] = 2
       /\ owed[cur[w]] = 0

\* C14 (Add does not bypass rate limiting): a key that is waiting out the
\* delay of its last AddRateLimited is not eligible for Get(), pending or
\* not; an Enqueue of the key during the delay puts it in the pending keys
\* and leaves the delay as it was; and Get() hands the key out only after
\* the whole delay has passed.
C14_AddKeepsBackoff ==
    /\ [](\A k \in Keys :
            owed[k] > 0 =>
               \A i \in Eligible(pending, active, waiting) : pending[i] # k)
    /\ [](backoffEnq =>
            \/ TrackedKey \in Range(pending)
            \/ \E w \in Workers : wpc[w] \in InCycle /\ cur[w] = TrackedKey)
    /\ [][\A p \in Producers :
            (enqArgs[p] # <<>> /\ enqArgs'[p] # enqArgs[p]
               /\ keyFunc(Head(enqArgs[p])) \in Keys
               /\ owed[keyFunc(Head(enqArgs[p]))] > 0)
                  => /\ keyFunc(Head(enqArgs[p])) \in Range(pending')
                     /\ owed' = owed
                     /\ waiting' = waiting
                     /\ failures' = failures]_vars
    /\ [][\A w \in Workers :
            (backoffEnq /\ GetReturnsKey(w, TrackedKey)) => owed[TrackedKey] = 0]_vars

\* C14 witness: TrackedKey was enqueued while its delay was running, and
\* its Sync is running now, the delay having passed.
C14_Witness ==
    /\ backoffEnq
    /\ owed[TrackedKey] = 0
    /\ \E w \in Workers : wpc[w] = "sync" /\ cur[w] = TrackedKey

\* C15 (Completion signal is one-shot): with one Run call, workerDone only
\* ever goes from open to closed, in the step in which Run returns after
\* Get() returned the closed flag; no close hits a closed channel; a
\* Shutdown() returns only with workerDone closed and the worker loop
\* exited; and, under Fairness, once ShutDown() has been called on the
\* queue of a running worker the close happens.
C15_OneShotSignal ==
    /\ [][workerDone' # workerDone =>
            /\ workerDone = "open"
            /\ workerDone' = "closed"
            /\ \E w \in Workers : wpc[w] = "quit" /\ wpc'[w] = "returned"]_vars
    /\ [](\A w \in Workers : wpc[w] # "panicked")
    /\ [](workerDone = "closed" <=> \E w \in Workers : wpc[w] = "returned")
    /\ [][\A c \in Callers :
            (spc[c] = "wait" /\ spc'[c] = "idle") =>
               /\ workerDone = "closed"
               /\ \E w \in Workers : wpc[w] = "returned"]_vars
    /\ (closed /\ \E w \in Workers : wpc[w] # "idle") ~> (workerDone = "closed")

\* C15 witness: the one Run loop has closed workerDone and a Shutdown()
\* that waited for it has returned.
C15_Witness ==
    /\ workerDone = "closed"
    /\ sdReturns = 1
    /\ \A c \in Callers : spc[c] = "idle"
    /\ \E w \in Workers : wpc[w] = "returned"

\* C16 (Single-run lifecycle): whatever calls are made of Run, Enqueue and
\* Shutdown, no close hits the closed workerDone and no two worker loops
\* are between Get and Done at the same time.
C16_SingleRun ==
    /\ \A w \in Workers : wpc[w] # "panicked"
    /\ Cardinality({w \in Workers : wpc[w] \in InCycle}) <= 1

\* C17 (Key extraction failure): the step of Enqueue on an object from
\* which no key can be derived drops that object and no other (the objects
\* after it are still to be visited), and leaves the pending keys, the
\* active set, the rate-limiter state, the workers and the history of Sync
\* calls as they were.
C17_KeyErrorDropsOne ==
    [][\A p \in Producers :
          (enqArgs[p] # <<>> /\ enqArgs'[p] # enqArgs[p]
             /\ keyFunc(Head(enqArgs[p])) = KeyErr)
                => /\ enqArgs'[p] = Tail(enqArgs[p])
                   /\ UNCHANGED <<pending, active, closed, failures, waiting,
                                  wpc, cur, workerDone, spc, syncFn, streak,
                                  owed>>]_vars

\* C18 (Shutdown termination): a Shutdown() returns only when a Run loop
\* has returned, so it never returns while no Run was started; a Shutdown()
\* called from inside the sync function stays blocked, with workerDone
\* open, and so does every other Shutdown(); and, under Fairness, a
\* Shutdown() called while Run is executing on another thread returns,
\* unless a Sync does not terminate because it called Shutdown itself.
C18_ShutdownTermination ==
    /\ [][\A c \in ShutdownThreads :
            (spc[c] = "wait" /\ spc'[c] = "idle") =>
               \E w \in Workers : wpc[w] = "returned"]_vars
    /\ [](\A c \in ShutdownThreads :
            (spc[c] = "wait" /\ \A w \in Workers : wpc[w] = "idle")
               => ~ENABLED ShutdownReturn(c))
    /\ [](\A w \in Workers :
            spc[w] = "wait" =>
               /\ wpc[w] = "sync"
               /\ workerDone = "open"
               /\ \A c \in ShutdownThreads : ~ENABLED ShutdownReturn(c))
    /\ [][\A w \in Workers : spc[w] = "wait" => spc'[w] = "wait"]_vars
    /\ \A c \in Callers :
          (spc[c] = "wait" /\ \E w \in Workers : wpc[w] # "idle")
             ~> (spc[c] = "idle" \/ \E w \in Workers : spc[w] = "wait")

\* C18 witness: the sync function has called Shutdown on the worker thread
\* and another thread is in Shutdown too; both wait on workerDone.
C18_Witness ==
    /\ \E w \in Workers : spc[w] = "wait" /\ wpc[w] = "sync"
    /\ \E c \in Callers : spc[c] = "wait"

\* C19 (Shutdown is idempotent): once a Shutdown() has returned, workerDone
\* is closed and stays closed, so a further Shutdown() can return as soon
\* as it waits; its ShutDown() changes nothing in the queue or in the
\* workers; no close hits the closed channel; and no Sync starts.
C19_ShutdownIdempotent ==
    /\ [](sdReturns >= 1 =>
            /\ workerDone = "closed"
            /\ \A w \in Workers : wpc[w] # "panicked"
            /\ \A c \in Callers : spc[c] = "wait" => ENABLED ShutdownReturn(c))
    /\ [][sdReturns >= 1 =>
            /\ workerDone' = workerDone
            /\ \A w \in Workers : ~SyncStarts(w)
            /\ \A c \in Callers :
                  (spc[c] = "idle" /\ spc'[c] = "wait") =>
                     UNCHANGED <<pending, active, closed, failures, waiting,
                                 wpc, cur, syncFn>>]_vars

\* C19 witness: a second Shutdown() has returned.
C19_Witness == sdReturns = 2 /\ \A c \in Callers : spc[c] = "idle"

\* The type names a property value refers to: its $ref, or that of the
\* items of an array or of the additionalProperties of an object.
RECURSIVE RefsOf(_)
RefsOf(val) ==
    IF val.ref # None THEN {val.ref}
    ELSE IF val.type = "array" /\ val.items # <<>> THEN RefsOf(val.items[1])
    ELSE IF val.type = "object" /\ val.addl # <<>> THEN RefsOf(val.addl[1])
    ELSE {}
RefsOfType(t) == UNION {RefsOf(p.val) : p \in schemas[t].properties}
RECURSIVE RefClosure(_)
RefClosure(S) ==
    LET next == S \cup UNION {RefsOfType(t) : t \in S}
    IN IF next = S THEN S ELSE RefClosure(next)
Reachable == RefClosure(MainServices)

\* A property value from which a Go type can be derived.
RECURSIVE Typed(_)
Typed(val) ==
    \/ val.ref # None
    \/ val.type = "array" /\ val.items # <<>> /\ Typed(val.items[1])
    \/ val.type = "object" /\ (val.addl = <<>> \/ Typed(val.addl[1]))
    \/ val.type \notin {"array", "object"} /\ val.format # None
    \/ val.type \notin {"array", "object", "", None}

AllHaveProps == \A t \in Reachable : schemas[t].hasProps
AllTyped == \A t \in Reachable : \A p \in schemas[t].properties : Typed(p.val)
ExactlyReachable ==
    /\ {AllApiServices[i].Name : i \in 1..Len(AllApiServices)} = Reachable
    /\ Len(AllApiServices) = Cardinality(Reachable)
    /\ \A i \in 1..(Len(AllApiServices) - 1) :
          NameLess(AllApiServices[i].Name, AllApiServices[i + 1].Name)

\* C20 as stated: when every type reachable through $ref from the keys of
\* MainServices has a properties map, populateApiServices does not panic
\* and ends with exactly one entry per reachable type, ascending by Name.
C20_AsStated ==
    AllHaveProps =>
       /\ apc # "panicked"
       /\ (apc = "done" => ExactlyReachable)

\* C20 amended: when every reachable type has a properties map and every
\* property of a reachable type has a usable type, populateApiServices
\* does not panic, no entry is appended twice, every round of the loop
\* lowers the number of unparsed types or shortens the queue (so the loop
\* ends, cyclic references or not), the function is never stuck before its
\* end, and it ends with exactly one entry per reachable type, ascending by
\* Name.
C20_DependencyResolution ==
    /\ []((AllHaveProps /\ AllTyped) =>
            /\ apc # "panicked"
            /\ (apc = "done" => ExactlyReachable))
    /\ [](\A i, j \in 1..Len(AllApiServices) :
            i # j => AllApiServices[i].Name # AllApiServices[j].Name)
    /\ [][(apc = "loop" /\ typesQueue # <<>>) =>
            (Cardinality(TypeNames \ completed') * (Cardinality(Properties) + 1)
                   + Len(typesQueue')
               < Cardinality(TypeNames \ completed) * (Cardinality(Properties) + 1)
                   + Len(typesQueue))]_vars
    /\ [](apc \in {"start", "loop"} => ENABLED ApiNext)

\* C20 witness: the function has ended on a document in which all three
\* types are reachable, the main service is referenced back (a cycle), and
\* the entries were appended in another order than that of their names.
C20_Witness ==
    /\ apc = "done"
    /\ AllHaveProps /\ AllTyped
    /\ Reachable = TypeNames
    /\ \E t \in TypeNames \ MainServices : MainServices \subseteq RefsOfType(t)
    /\ ExactlyReachable

====
